---- MODULE Spec2Model ----
(***************************************************************************)
(* ms-logistica: route generation (generar_ruta), stop status updates      *)
(* (actualizar_estado_parada) and the relational store they share.         *)
(*                                                                         *)
(* Python values are modelled as follows.                                  *)
(*   - Optional[T]: the empty tuple NONE for None, <<x>> for a value x.    *)
(*   - str: a tuple of one-character strings, so that strip(), casefold()  *)
(*     and str comparison are computed character by character.             *)
(*   - uuid.UUID: the case-folded hex digits of the raw text.              *)
(*   - uuid4 primary keys: the least natural number not yet in use.        *)
(***************************************************************************)
EXTENDS Integers, Sequences, FiniteSets, TLC

(* ------------------------------ bounds --------------------------------- *)

\* concurrent request workers that may run generar_ruta
NumProcs == 2
\* delivery dates
NumFechas == 2
\* committed routes
MaxRutas == 2
\* orders in one ms-pedidos response
MaxPedidos == 2

(* ------------------------- program constants --------------------------- *)

MAX_RETRIES == 3

PLANEADA == "PLANEADA"
EN_RUTA == "EN_RUTA"
FINALIZADA == "FINALIZADA"
CANCELADA == "CANCELADA"
RutaEstado == {PLANEADA, EN_RUTA, FINALIZADA, CANCELADA}

PENDIENTE == "PENDIENTE"
ENTREGADA == "ENTREGADA"
FALLIDA == "FALLIDA"
ParadaEstado == {PENDIENTE, ENTREGADA, FALLIDA}

(* --------------------------- Python values ----------------------------- *)

NONE == <<>>
Some(x) == <<x>>

\* truthiness of an Optional[str] (None and "" are falsy)
Truthy(o) == o # NONE /\ o[1] # <<>>

\* truthiness of an Optional[int] (None and 0 are falsy)
TruthyInt(o) == o # NONE /\ o[1] # 0

\* Python's `a or b`
PyOr(a, b) == IF Truthy(a) THEN a ELSE b

\* code points of the characters the model uses
Ord(c) ==
    CASE c = " " -> 32
      [] c = "0" -> 48 [] c = "1" -> 49 [] c = "2" -> 50 [] c = "3" -> 51
      [] c = "4" -> 52 [] c = "5" -> 53 [] c = "6" -> 54 [] c = "7" -> 55
      [] c = "8" -> 56 [] c = "9" -> 57
      [] c = "A" -> 65 [] c = "B" -> 66 [] c = "C" -> 67 [] c = "J" -> 74
      [] c = "K" -> 75 [] c = "N" -> 78 [] c = "X" -> 88
      [] c = "a" -> 97 [] c = "b" -> 98 [] c = "c" -> 99 [] c = "e" -> 101
      [] c = "j" -> 106 [] c = "k" -> 107 [] c = "n" -> 110 [] c = "o" -> 111
      [] c = "x" -> 120

\* str.casefold on one character
FoldChar(c) ==
    CASE c = "A" -> "a" [] c = "B" -> "b" [] c = "C" -> "c" [] c = "J" -> "j"
      [] c = "K" -> "k" [] c = "N" -> "n" [] c = "X" -> "x"
      [] OTHER -> c

Casefold(s) == [i \in 1..Len(s) |-> FoldChar(s[i])]

RECURSIVE LStrip(_)
LStrip(s) == IF s # <<>> /\ Head(s) = " " THEN LStrip(Tail(s)) ELSE s

RECURSIVE RStrip(_)
RStrip(s) ==
    IF s # <<>> /\ s[Len(s)] = " " THEN RStrip(SubSeq(s, 1, Len(s) - 1)) ELSE s

\* str.strip
Strip(s) == RStrip(LStrip(s))

_normalize(s) ==
    IF s = NONE THEN NONE
    ELSE LET t == Strip(s[1]) IN IF t # <<>> THEN Some(Casefold(t)) ELSE NONE

Digit(d) == <<"0", "1", "2", "3", "4", "5", "6", "7", "8", "9">>[d + 1]

RECURSIVE Decimal(_)
Decimal(n) == IF n < 10 THEN <<Digit(n)>> ELSE Decimal(n \div 10) \o <<Digit(n % 10)>>

\* str(cliente_id)
Str(o) == IF o = NONE THEN <<"N", "o", "n", "e">> ELSE Decimal(o[1])

\* s < t for two str values
RECURSIVE StrLess(_, _)
StrLess(s, t) ==
    IF t = <<>> THEN FALSE
    ELSE IF s = <<>> THEN TRUE
    ELSE IF Head(s) # Head(t) THEN Ord(Head(s)) < Ord(Head(t))
    ELSE StrLess(Tail(s), Tail(t))

HexDigits == {"0", "1", "2", "3", "4", "5", "6", "7", "8", "9", "a", "b", "c", "d", "e", "f"}

\* a conversion that takes any text for an id
ParseSinValidar(raw) == Some(Casefold(raw))

\* uuid.UUID(str(pid_raw)): NONE when the text is rejected (ValueError)
ParseUUID(raw) ==
    LET t == Casefold(raw)
    IN IF t # <<>> /\ \A i \in 1..Len(t) : t[i] \in HexDigits THEN Some(t) ELSE NONE

(* ------------------------- remote responses ---------------------------- *)

SeqsUpTo(S, n) == UNION {[1..k -> S] : k \in 0..n}

\* raw order ids as ms-pedidos may send them: "a" and "A" are the same UUID,
\* "x" is not a UUID
IdsRaw == {<<"a">>, <<"A">>, <<"b">>, <<"x">>}
Clientes == {NONE, Some(0), Some(2), Some(10)}
Pedidos == [id : IdsRaw, cliente_id : Clientes]

\* the two orders the lifecycle specification draws its responses from
PedidosBasicos ==
    {[id |-> <<"a">>, cliente_id |-> NONE], [id |-> <<"b">>, cliente_id |-> Some(2)]}

\* the bodies ms-pedidos may answer with: a bare list, an envelope with or
\* without "items", any other JSON value, or an error raised by the client
Respuestas(peds) ==
    LET listas == SeqsUpTo(peds, MaxPedidos)
    IN  {[tipo |-> "list", items |-> Some(l)] : l \in listas}
        \cup {[tipo |-> "dict", items |-> Some(l)] : l \in listas}
        \cup {[tipo |-> "dict", items |-> NONE],
              [tipo |-> "otro", items |-> NONE],
              [tipo |-> "error", items |-> NONE]}

\* the bodies ms-usuarios may answer with
Payloads ==
    [direccion : {NONE, Some(<<"K">>)}, address : {NONE, Some(<<" ", "k">>)},
     ciudad : {NONE, Some(<<"C">>)}, city : {NONE, Some(<<"c", " ">>)}]

PayloadsBasicos ==
    {[direccion |-> Some(<<"K">>), address |-> NONE, ciudad |-> NONE, city |-> Some(<<"C">>)]}

\* what a GET to ms-usuarios yields: a body of payloads, or NONE when it raises
RespuestasUsuario(payloads) == {Some(d) : d \in payloads} \cup {NONE}

(* ------------------------------ state ---------------------------------- *)

Procs == 1..NumProcs
Fechas == 1..NumFechas

VARIABLES
    rutas,      \* table ruta_entrega: id -> [fecha, estado]
    paradas,    \* table parada: id -> [ruta_id, cliente_id, direccion, ciudad, estado, orden]
    vinculos,   \* table parada_pedido: set of <<parada_id, pedido_id>>
    pc,         \* position of each generar_ruta request
    fecha,      \* its fecha argument
    pedidos,    \* its fetched order list
    cache,      \* its cache_clientes
    grupos,     \* its grupos dict, in insertion order
    idx,        \* its position in the loop over pedidos
    intento,    \* the attempt number inside _ms_pedido_marcar_despachado
    all_ok,     \* its all_ok flag
    ok,         \* its ok local: what _ms_pedido_marcar_despachado returned last
    tx,         \* its session: rows added and flushed but not committed
    ruta,       \* the RutaEntrega it has created (its id)
    resultado,  \* the response of the request once it has ended
    cuerpo,     \* the body ms-pedidos answered its fetch with, until the list taken
                \* from it has gone through the duplicate check
    consultas,  \* GETs it has sent to ms-usuarios, in order, and how each one went
    enviados,   \* POSTs it has sent to ms-pedidos, in order, and how each one went
    resp,       \* HTTP status of the last PATCH /paradas/{id}/estado
    leido       \* the response of the GET served in the last step, NONE when the
                \* last step served another request

store == <<rutas, paradas, vinculos>>
locals == <<pc, fecha, pedidos, cache, grupos, idx, intento, all_ok, ok, tx, ruta, resultado>>
remoto == <<cuerpo, consultas, enviados>>
vars == <<rutas, paradas, vinculos, pc, fecha, pedidos, cache, grupos, idx, intento,
          all_ok, ok, tx, ruta, resultado, cuerpo, consultas, enviados, resp, leido>>

\* a session with nothing pending
TxVacia == [ruta |-> NONE, paradas |-> <<>>, vinculos |-> <<>>]

\* responses of POST /rutas/generar
SinRespuesta == [status |-> 0, detail |-> ""]
Creada == [status |-> 201, detail |-> ""]
SinVentas ==
    [status |-> 404,
     detail |-> "No hay ventas para generar ruta de entrega en la fecha seleccionada."]
\* the client's exception left unwrapped
ErrorSinEnvolver == [status |-> 500, detail |-> "MsClientError"]

SinConsulta == [status |-> 404, detail |-> "No fue posible consultar pedidos aprobados"]
Conflicto == [status |-> 409, detail |-> "Ya existe una ruta"]
ErrorInterno == [status |-> 500, detail |-> "IntegrityError"]

Init ==
    /\ rutas = <<>>
    /\ paradas = <<>>
    /\ vinculos = {}
    /\ pc = [p \in Procs |-> "idle"]
    /\ fecha = [p \in Procs |-> 1]
    /\ pedidos = [p \in Procs |-> <<>>]
    /\ cache = [p \in Procs |-> <<>>]
    /\ grupos = [p \in Procs |-> <<>>]
    /\ idx = [p \in Procs |-> 1]
    /\ intento = [p \in Procs |-> 1]
    /\ all_ok = [p \in Procs |-> TRUE]
    /\ ok = [p \in Procs |-> NONE]
    /\ tx = [p \in Procs |-> TxVacia]
    /\ ruta = [p \in Procs |-> NONE]
    /\ resultado = [p \in Procs |-> SinRespuesta]
    /\ cuerpo = [p \in Procs |-> NONE]
    /\ consultas = [p \in Procs |-> <<>>]
    /\ enviados = [p \in Procs |-> <<>>]
    /\ resp = 0
    /\ leido = NONE

(* ------------------------------ helpers -------------------------------- *)

\* a fetch that takes only a bare list for an order list
SoloListas(r) ==
    CASE r.tipo = "list" -> [raise |-> FALSE, val |-> r.items[1]]
      [] r.tipo = "error" -> [raise |-> TRUE, val |-> <<>>]
      [] OTHER -> [raise |-> FALSE, val |-> <<>>]

\* what _ms_pedidos_listar_aprobados makes of the body r
_ms_pedidos_listar_aprobados(r) ==
    CASE r.tipo = "list" -> [raise |-> FALSE, val |-> r.items[1]]
      [] r.tipo = "dict" ->
            [raise |-> FALSE, val |-> IF r.items # NONE THEN r.items[1] ELSE <<>>]
      [] r.tipo = "error" -> [raise |-> TRUE, val |-> <<>>]
      [] OTHER -> [raise |-> FALSE, val |-> <<>>]

SinDatos == [direccion |-> NONE, ciudad |-> NONE]

\* the dict _ms_usuarios_detalle builds from the body data
InfoDe(data) ==
    [direccion |-> PyOr(data.direccion, data.address),
     ciudad |-> PyOr(data.ciudad, data.city)]

\* a duplicate check that only a PLANEADA route can trip
RutasSoloPlaneadas(f) == {r \in DOMAIN rutas : rutas[r].fecha = f /\ rutas[r].estado = PLANEADA}

\* the ruta_entrega rows of date f that the duplicate check selects
RutasActivas(f) == {r \in DOMAIN rutas : rutas[r].fecha = f /\ rutas[r].estado # CANCELADA}

\* the grouping key of an order
Clave(cliente_id, direccion, ciudad) == <<cliente_id, _normalize(direccion), _normalize(ciudad)>>

\* a grouping that opens a new group for every order
AgregarSinAgrupar(gs, key, item) == Append(gs, [key |-> key, lista |-> <<item>>])

\* grupos[key].append(item) on a dict that keeps insertion order
AgregarAGrupo(gs, key, item) ==
    IF \E i \in 1..Len(gs) : gs[i].key = key
    THEN [i \in 1..Len(gs) |->
            IF gs[i].key = key THEN [gs[i] EXCEPT !.lista = Append(@, item)] ELSE gs[i]]
    ELSE Append(gs, [key |-> key, lista |-> <<item>>])

\* `o or ""` as a str
OrVacio(o) == IF Truthy(o) THEN o[1] ELSE <<>>

\* the sort key of a group: (str(cliente_id), ciudad or "", direccion or "")
SortKey(key) == <<Str(key[1]), OrVacio(key[3]), OrVacio(key[2])>>

\* a < b for two sort keys (Python tuple comparison)
KeyLess(a, b) ==
    \/ StrLess(a[1], b[1])
    \/ a[1] = b[1] /\ StrLess(a[2], b[2])
    \/ a[1] = b[1] /\ a[2] = b[2] /\ StrLess(a[3], b[3])

\* sorted(): stable, so g goes behind every element that is not greater
RECURSIVE InsertSorted(_, _)
InsertSorted(g, s) ==
    IF s = <<>> THEN <<g>>
    ELSE IF KeyLess(SortKey(g.key), SortKey(Head(s).key)) THEN <<g>> \o s
    ELSE <<Head(s)>> \o InsertSorted(g, Tail(s))

\* the groups left in insertion order
SinOrdenar(gs) == gs

RECURSIVE Sorted(_)
Sorted(gs) ==
    IF gs = <<>> THEN <<>> ELSE InsertSorted(gs[Len(gs)], Sorted(SubSeq(gs, 1, Len(gs) - 1)))

\* uuid4: n keys that no row, committed or pending, carries
RECURSIVE NuevosIds(_, _)
NuevosIds(enUso, n) ==
    IF n = 0 THEN <<>>
    ELSE LET k == CHOOSE k \in 1..(Cardinality(enUso) + 1) :
                    k \notin enUso /\ \A j \in 1..(k - 1) : j \in enUso
         IN <<k>> \o NuevosIds(enUso \cup {k}, n - 1)

RutaIdsEnUso == DOMAIN rutas \cup {ruta[q][1] : q \in {q \in Procs : ruta[q] # NONE}}
ParadaIdsEnUso ==
    DOMAIN paradas \cup UNION {{tx[q].paradas[i].id : i \in 1..Len(tx[q].paradas)} : q \in Procs}

\* two rows of parada_pedido with the same primary key among the links of one stop
HayDuplicado(lista) ==
    \E i, j \in 1..Len(lista) : i < j /\ lista[i].pid = lista[j].pid

\* ruta.paradas
ParadasDe(r) == {x \in DOMAIN paradas : paradas[x].ruta_id = r}

\* rows for the first order of each group only
RECURSIVE VinculosSoloPrimero(_, _)
VinculosSoloPrimero(gs, pids) ==
    IF gs = <<>> THEN <<>>
    ELSE <<(<<Head(pids), Head(gs).lista[1].pid>>)>> \o VinculosSoloPrimero(Tail(gs), Tail(pids))

\* the ParadaPedido rows of the groups gs, whose stops got the keys pids
RECURSIVE VinculosDe(_, _)
VinculosDe(gs, pids) ==
    IF gs = <<>> THEN <<>>
    ELSE [j \in 1..Len(Head(gs).lista) |-> <<Head(pids), Head(gs).lista[j].pid>>]
         \o VinculosDe(Tail(gs), Tail(pids))

\* the Parada row of the group g, stop number orden of route rid
NuevaParada(id, rid, g, orden) ==
    [id |-> id, ruta_id |-> rid, cliente_id |-> g.lista[1].cliente_id,
     direccion |-> g.lista[1].direccion, ciudad |-> g.lista[1].ciudad,
     estado |-> PENDIENTE, orden |-> orden]

SinId(row) ==
    [ruta_id |-> row.ruta_id, cliente_id |-> row.cliente_id, direccion |-> row.direccion,
     ciudad |-> row.ciudad, estado |-> row.estado, orden |-> row.orden]

\* the request ends with the response r; nothing pending survives the session
Termina(p, r) ==
    /\ pc' = [pc EXCEPT ![p] = "fin"]
    /\ resultado' = [resultado EXCEPT ![p] = r]
    /\ tx' = [tx EXCEPT ![p] = TxVacia]

(* ---------------------------- generar_ruta ----------------------------- *)

\* a call that goes on with whatever list it fetched
NuncaVacia(lista) == FALSE

\* `not pedidos`
SinPedidos(lista) == lista = <<>>

\* a call that looks for a route of the date before it fetches the orders
ListarTrasVerificar(p, f, r, maxRutas) ==
    /\ pc[p] = "idle"
    /\ Cardinality(DOMAIN rutas) + Cardinality({q \in Procs : pc[q] # "idle"}) < maxRutas
    /\ LET res == _ms_pedidos_listar_aprobados(r)
       IN  /\ fecha' = [fecha EXCEPT ![p] = f]
           /\ cuerpo' = [cuerpo EXCEPT ![p] = Some(r)]
           /\ IF RutasActivas(f) # {}
              THEN Termina(p, Conflicto) /\ UNCHANGED pedidos
              ELSE IF res.raise
              THEN Termina(p, SinConsulta) /\ UNCHANGED pedidos
              ELSE IF SinPedidos(res.val)
              THEN Termina(p, SinVentas) /\ UNCHANGED pedidos
              ELSE /\ pedidos' = [pedidos EXCEPT ![p] = res.val]
                   /\ pc' = [pc EXCEPT ![p] = "verificar"]
                   /\ UNCHANGED <<resultado, tx>>
    /\ UNCHANGED <<store, cache, grupos, idx, intento, all_ok, ok, ruta, consultas,
                   enviados, resp>>
    /\ leido' = NONE

\* POST /rutas/generar?fecha=f arrives; step 1, the fetch from ms-pedidos, answered r
Listar(p, f, r, maxRutas) ==
    /\ pc[p] = "idle"
    /\ Cardinality(DOMAIN rutas) + Cardinality({q \in Procs : pc[q] # "idle"}) < maxRutas
    /\ LET res == _ms_pedidos_listar_aprobados(r)
       IN  /\ fecha' = [fecha EXCEPT ![p] = f]
           /\ cuerpo' = [cuerpo EXCEPT ![p] = Some(r)]
           /\ IF res.raise
              THEN Termina(p, SinConsulta) /\ UNCHANGED pedidos
              ELSE IF SinPedidos(res.val)
              THEN Termina(p, SinVentas) /\ UNCHANGED pedidos
              ELSE /\ pedidos' = [pedidos EXCEPT ![p] = res.val]
                   /\ pc' = [pc EXCEPT ![p] = "verificar"]
                   /\ UNCHANGED <<resultado, tx>>
    /\ UNCHANGED <<store, cache, grupos, idx, intento, all_ok, ok, ruta, consultas,
                   enviados, resp>>
    /\ leido' = NONE

\* step 2, the duplicate check
Verificar(p) ==
    /\ pc[p] = "verificar"
    /\ IF RutasActivas(fecha[p]) # {}
       THEN Termina(p, Conflicto) /\ UNCHANGED <<idx, grupos, cache>>
       ELSE /\ pc' = [pc EXCEPT ![p] = "enriquecer"]
            /\ idx' = [idx EXCEPT ![p] = 1]
            /\ grupos' = [grupos EXCEPT ![p] = <<>>]
            /\ cache' = [cache EXCEPT ![p] = <<>>]
            /\ UNCHANGED <<resultado, tx>>
    /\ cuerpo' = [cuerpo EXCEPT ![p] = NONE]
    /\ UNCHANGED <<store, fecha, pedidos, intento, all_ok, ok, ruta, consultas, enviados,
                   resp>>
    /\ leido' = NONE

\* a lookup that never finds the customer in the cache
NuncaEnCache(c, cliente_id) == FALSE

\* `cliente_id in cache`
EnCache(c, cliente_id) == cliente_id \in DOMAIN c

\* step 3, one turn of the loop over pedidos; ms-usuarios, when asked, answers
\* with one of usuarios
ProcesarPedido(p, usuarios) ==
    /\ pc[p] = "enriquecer"
    /\ idx[p] <= Len(pedidos[p])
    /\ LET ped == pedidos[p][idx[p]]
           pid == ParseUUID(ped.id)
           cid == ped.cliente_id
           agrupa(info) ==
               LET direccion == PyOr(info.direccion, NONE)
                   ciudad == PyOr(info.ciudad, NONE)
               IN  grupos' = [grupos EXCEPT ![p] =
                        AgregarAGrupo(@, Clave(cid, direccion, ciudad),
                            [pid |-> pid[1], cliente_id |-> cid,
                             direccion |-> direccion, ciudad |-> ciudad])]
       IN  IF pid = NONE
           THEN UNCHANGED <<grupos, cache, consultas>>
           ELSE IF ~TruthyInt(cid)
           THEN agrupa(SinDatos) /\ UNCHANGED <<cache, consultas>>
           ELSE IF EnCache(cache[p], cid[1])
           THEN agrupa(cache[p][cid[1]]) /\ UNCHANGED <<cache, consultas>>
           ELSE \E data \in usuarios :
                    LET out == IF data = NONE THEN SinDatos ELSE InfoDe(data[1])
                    IN  /\ consultas' = [consultas EXCEPT ![p] =
                                Append(@, [cliente_id |-> cid[1], exito |-> data # NONE])]
                        /\ cache' = [cache EXCEPT ![p] = (cid[1] :> out) @@ @]
                        /\ agrupa(out)
    /\ idx' = [idx EXCEPT ![p] = @ + 1]
    /\ UNCHANGED <<store, pc, fecha, pedidos, intento, all_ok, ok, tx, ruta, resultado,
                   cuerpo, enviados, resp>>
    /\ leido' = NONE

\* step 4 with the route committed, not flushed, as soon as it is added
PersistirCommitTemprano(p) ==
    /\ pc[p] = "enriquecer"
    /\ idx[p] > Len(pedidos[p])
    /\ LET gs == Sorted(grupos[p])
           n == Len(gs)
           rid == NuevosIds(RutaIdsEnUso, 1)[1]
           pids == NuevosIds(ParadaIdsEnUso, n)
       IN  /\ ruta' = [ruta EXCEPT ![p] = Some(rid)]
           /\ rutas' = (rid :> [fecha |-> fecha[p], estado |-> PLANEADA]) @@ rutas
           /\ IF \E i \in 1..(n - 1) : HayDuplicado(gs[i].lista)
              THEN Termina(p, ErrorInterno)
              ELSE /\ tx' = [tx EXCEPT ![p] =
                        [ruta |-> Some([id |-> rid, fecha |-> fecha[p], estado |-> PLANEADA]),
                         paradas |-> [i \in 1..n |-> NuevaParada(pids[i], rid, gs[i], i)],
                         vinculos |-> VinculosDe(gs, pids)]]
                   /\ pc' = [pc EXCEPT ![p] = "commit"]
                   /\ UNCHANGED resultado
    /\ UNCHANGED <<paradas, vinculos, fecha, pedidos, cache, grupos, idx, intento, all_ok,
                   ok, remoto, resp>>
    /\ leido' = NONE

\* step 4, the route, its stops and their links are added to the session and
\* flushed; a flush that meets two links with one primary key raises
Persistir(p) ==
    /\ pc[p] = "enriquecer"
    /\ idx[p] > Len(pedidos[p])
    /\ LET gs == Sorted(grupos[p])
           n == Len(gs)
           rid == NuevosIds(RutaIdsEnUso, 1)[1]
           pids == NuevosIds(ParadaIdsEnUso, n)
       IN  /\ ruta' = [ruta EXCEPT ![p] = Some(rid)]
           /\ IF \E i \in 1..(n - 1) : HayDuplicado(gs[i].lista)
              THEN Termina(p, ErrorInterno)
              ELSE /\ tx' = [tx EXCEPT ![p] =
                        [ruta |-> Some([id |-> rid, fecha |-> fecha[p], estado |-> PLANEADA]),
                         paradas |-> [i \in 1..n |-> NuevaParada(pids[i], rid, gs[i], i)],
                         vinculos |-> VinculosDe(gs, pids)]]
                   /\ pc' = [pc EXCEPT ![p] = "commit"]
                   /\ UNCHANGED resultado
    /\ UNCHANGED <<store, fecha, pedidos, cache, grupos, idx, intento, all_ok, ok, remoto,
                   resp>>
    /\ leido' = NONE

\* a hypothetical unique index on the date of the routes that are not cancelled
ViolaRestriccionesOFecha(t) ==
    \/ \E i, j \in 1..Len(t.vinculos) : i < j /\ t.vinculos[i] = t.vinculos[j]
    \/ \E r \in DOMAIN rutas : rutas[r].fecha = t.ruta[1].fecha /\ rutas[r].estado # CANCELADA

\* the constraints of the schema that the pending rows t can break: the primary
\* key (parada_id, pedido_id) of parada_pedido
ViolaRestricciones(t) ==
    \E i, j \in 1..Len(t.vinculos) : i < j /\ t.vinculos[i] = t.vinculos[j]

\* a call that marks the orders before it commits
CommitAlFinal(p) ==
    /\ pc[p] = "commit"
    /\ pc' = [pc EXCEPT ![p] = "despachar"]
    /\ idx' = [idx EXCEPT ![p] = 1]
    /\ intento' = [intento EXCEPT ![p] = 1]
    /\ all_ok' = [all_ok EXCEPT ![p] = TRUE]
    /\ UNCHANGED <<store, tx, resultado, fecha, pedidos, cache, grupos, ok, ruta, remoto, resp>>
    /\ leido' = NONE

\* session.commit(): every pending row becomes visible at once, or none does
Commit(p) ==
    /\ pc[p] = "commit"
    /\ LET t == tx[p]
           v == t.vinculos
       IN  IF ViolaRestricciones(t)
           THEN Termina(p, ErrorInterno) /\ UNCHANGED <<store, idx, intento, all_ok>>
           ELSE /\ rutas' = (t.ruta[1].id :> [fecha |-> t.ruta[1].fecha,
                                               estado |-> t.ruta[1].estado]) @@ rutas
                /\ paradas' = [x \in {t.paradas[i].id : i \in 1..Len(t.paradas)} |->
                                  SinId(CHOOSE row \in {t.paradas[i] : i \in 1..Len(t.paradas)} :
                                            row.id = x)] @@ paradas
                /\ vinculos' = vinculos \cup {v[i] : i \in 1..Len(v)}
                /\ tx' = [tx EXCEPT ![p] = TxVacia]
                /\ pc' = [pc EXCEPT ![p] = "despachar"]
                /\ idx' = [idx EXCEPT ![p] = 1]
                /\ intento' = [intento EXCEPT ![p] = 1]
                /\ all_ok' = [all_ok EXCEPT ![p] = TRUE]
                /\ UNCHANGED resultado
    /\ UNCHANGED <<fecha, pedidos, cache, grupos, ok, ruta, remoto, resp>>
    /\ leido' = NONE

\* a loop that gives up after the second attempt
ReintentaUnaVez(k) == k < 2

\* the for loop of _ms_pedido_marcar_despachado has a turn left after turn k
HayOtroIntento(k) == k < MAX_RETRIES

\* a loop that gives up on the remaining orders once an order could not be marked
DespacharHastaFallo(p, oks) ==
    /\ pc[p] = "despachar"
    /\ idx[p] <= Len(pedidos[p])
    /\ LET pid == ParseUUID(pedidos[p][idx[p]].id)
       IN  IF pid = NONE
           THEN /\ idx' = [idx EXCEPT ![p] = @ + 1]
                /\ UNCHANGED <<intento, all_ok, ok, enviados>>
           ELSE \E exito \in oks :
                    /\ enviados' = [enviados EXCEPT ![p] =
                                        Append(@, [pedido_id |-> pid[1], exito |-> exito])]
                    /\ IF exito
                       THEN /\ idx' = [idx EXCEPT ![p] = @ + 1]
                            /\ intento' = [intento EXCEPT ![p] = 1]
                            /\ ok' = [ok EXCEPT ![p] = Some(TRUE)]
                            /\ UNCHANGED all_ok
                       ELSE IF HayOtroIntento(intento[p])
                       THEN /\ intento' = [intento EXCEPT ![p] = @ + 1]
                            /\ UNCHANGED <<idx, all_ok, ok>>
                       ELSE /\ idx' = [idx EXCEPT ![p] = Len(pedidos[p]) + 1]
                            /\ intento' = [intento EXCEPT ![p] = 1]
                            /\ ok' = [ok EXCEPT ![p] = Some(FALSE)]
                            /\ all_ok' = [all_ok EXCEPT ![p] = FALSE]
    /\ UNCHANGED <<store, pc, fecha, pedidos, cache, grupos, tx, ruta, resultado,
                   cuerpo, consultas, resp>>
    /\ leido' = NONE

\* step 5, one POST of _ms_pedido_marcar_despachado for the order at idx, which
\* ms-pedidos answers (ok) or fails; an order whose id is no UUID is passed over
Despachar(p, oks) ==
    /\ pc[p] = "despachar"
    /\ idx[p] <= Len(pedidos[p])
    /\ LET pid == ParseUUID(pedidos[p][idx[p]].id)
       IN  IF pid = NONE
           THEN /\ idx' = [idx EXCEPT ![p] = @ + 1]
                /\ UNCHANGED <<intento, all_ok, ok, enviados>>
           ELSE \E exito \in oks :
                    /\ enviados' = [enviados EXCEPT ![p] =
                                        Append(@, [pedido_id |-> pid[1], exito |-> exito])]
                    /\ IF exito
                       THEN /\ idx' = [idx EXCEPT ![p] = @ + 1]
                            /\ intento' = [intento EXCEPT ![p] = 1]
                            /\ ok' = [ok EXCEPT ![p] = Some(TRUE)]
                            /\ UNCHANGED all_ok
                       ELSE IF HayOtroIntento(intento[p])
                       THEN /\ intento' = [intento EXCEPT ![p] = @ + 1]
                            /\ UNCHANGED <<idx, all_ok, ok>>
                       ELSE /\ idx' = [idx EXCEPT ![p] = @ + 1]
                            /\ intento' = [intento EXCEPT ![p] = 1]
                            /\ ok' = [ok EXCEPT ![p] = Some(FALSE)]
                            /\ all_ok' = [all_ok EXCEPT ![p] = FALSE]
    /\ UNCHANGED <<store, pc, fecha, pedidos, cache, grupos, tx, ruta, resultado,
                   cuerpo, consultas, resp>>
    /\ leido' = NONE

\* a call that fails when an order could not be marked
RetornarExigeDespacho(p) ==
    /\ pc[p] = "despachar"
    /\ idx[p] > Len(pedidos[p])
    /\ Termina(p, IF all_ok[p] THEN Creada ELSE ErrorInterno)
    /\ UNCHANGED <<store, fecha, pedidos, cache, grupos, idx, intento, all_ok, ok, ruta,
                   remoto, resp>>
    /\ leido' = NONE

\* the loop is over: generar_ruta returns the route, 201
Retornar(p) ==
    /\ pc[p] = "despachar"
    /\ idx[p] > Len(pedidos[p])
    /\ Termina(p, Creada)
    /\ UNCHANGED <<store, fecha, pedidos, cache, grupos, idx, intento, all_ok, ok, ruta,
                   remoto, resp>>
    /\ leido' = NONE

\* the response is sent and the request's session and locals are gone
Responder(p) ==
    /\ pc[p] = "fin"
    /\ pc' = [pc EXCEPT ![p] = "idle"]
    /\ fecha' = [fecha EXCEPT ![p] = 1]
    /\ pedidos' = [pedidos EXCEPT ![p] = <<>>]
    /\ cache' = [cache EXCEPT ![p] = <<>>]
    /\ grupos' = [grupos EXCEPT ![p] = <<>>]
    /\ idx' = [idx EXCEPT ![p] = 1]
    /\ intento' = [intento EXCEPT ![p] = 1]
    /\ all_ok' = [all_ok EXCEPT ![p] = TRUE]
    /\ ok' = [ok EXCEPT ![p] = NONE]
    /\ tx' = [tx EXCEPT ![p] = TxVacia]
    /\ ruta' = [ruta EXCEPT ![p] = NONE]
    /\ resultado' = [resultado EXCEPT ![p] = SinRespuesta]
    /\ cuerpo' = [cuerpo EXCEPT ![p] = NONE]
    /\ consultas' = [consultas EXCEPT ![p] = <<>>]
    /\ enviados' = [enviados EXCEPT ![p] = <<>>]
    /\ UNCHANGED <<store, resp>>
    /\ leido' = NONE

(* ----------------------- actualizar_estado_parada ---------------------- *)

\* a handler without the recomputation that completes the route
EstadoRutaSinFinalizar(r, id, nuevo) ==
    IF rutas[r].estado = PLANEADA /\ nuevo \in {ENTREGADA, FALLIDA}
    THEN EN_RUTA ELSE rutas[r].estado

\* a handler that starts the route on a delivery only
EstadoRutaSoloEntregada(r, id, nuevo) ==
    LET enRuta == IF rutas[r].estado = PLANEADA /\ nuevo = ENTREGADA
                  THEN EN_RUTA ELSE rutas[r].estado
        estados == {IF x = id THEN nuevo ELSE paradas[x].estado : x \in ParadasDe(r)}
    IN  IF estados # {} /\ \A st \in estados : st = ENTREGADA THEN FINALIZADA ELSE enRuta

\* a handler that derives the route status from the stops alone
EstadoRutaRecalculada(r, id, nuevo) ==
    LET estados == {IF x = id THEN nuevo ELSE paradas[x].estado : x \in ParadasDe(r)}
    IN  IF \A st \in estados : st = ENTREGADA THEN FINALIZADA
        ELSE IF \A st \in estados : st = PENDIENTE THEN PLANEADA
        ELSE EN_RUTA

\* a handler that completes the route once no stop is pending
EstadoRutaTerminales(r, id, nuevo) ==
    LET enRuta == IF rutas[r].estado = PLANEADA /\ nuevo \in {ENTREGADA, FALLIDA}
                  THEN EN_RUTA ELSE rutas[r].estado
        estados == {IF x = id THEN nuevo ELSE paradas[x].estado : x \in ParadasDe(r)}
    IN  IF estados # {} /\ \A st \in estados : st # PENDIENTE THEN FINALIZADA ELSE enRuta

\* a handler that finalises only a route it did not just set IN_PROGRESS
EstadoRutaUnPaso(r, id, nuevo) ==
    LET estados == {IF x = id THEN nuevo ELSE paradas[x].estado : x \in ParadasDe(r)}
    IN  IF rutas[r].estado = PLANEADA /\ nuevo \in {ENTREGADA, FALLIDA} THEN EN_RUTA
        ELSE IF estados # {} /\ \A st \in estados : st = ENTREGADA THEN FINALIZADA
        ELSE rutas[r].estado

\* ruta.estado as the handler leaves it, the stop id of route r being set to nuevo
EstadoRuta(r, id, nuevo) ==
    LET enRuta == IF rutas[r].estado = PLANEADA /\ nuevo \in {ENTREGADA, FALLIDA}
                  THEN EN_RUTA ELSE rutas[r].estado
        estados == {IF x = id THEN nuevo ELSE paradas[x].estado : x \in ParadasDe(r)}
    IN  IF estados # {} /\ \A st \in estados : st = ENTREGADA THEN FINALIZADA ELSE enRuta

\* a handler that answers 200 for a stop it does not find
ActualizarSinBuscar(id, nuevo) ==
    /\ IF id \notin DOMAIN paradas \/ paradas[id].ruta_id \notin DOMAIN rutas
       THEN /\ resp' = 200
            /\ UNCHANGED <<store, locals, remoto>>
       ELSE /\ paradas' = [paradas EXCEPT ![id].estado = nuevo]
            /\ rutas' = [rutas EXCEPT ![paradas[id].ruta_id].estado =
                             EstadoRuta(paradas[id].ruta_id, id, nuevo)]
            /\ resp' = 200
            /\ UNCHANGED <<vinculos, locals, remoto>>
    /\ leido' = NONE

\* a handler that sets the status of every stop of the route of the stop
ActualizarParadasDeLaRuta(id, nuevo) ==
    /\ IF id \notin DOMAIN paradas \/ paradas[id].ruta_id \notin DOMAIN rutas
       THEN /\ resp' = 404
            /\ UNCHANGED <<store, locals, remoto>>
       ELSE /\ paradas' = [x \in DOMAIN paradas |->
                              IF paradas[x].ruta_id = paradas[id].ruta_id
                              THEN [paradas[x] EXCEPT !.estado = nuevo] ELSE paradas[x]]
            /\ rutas' = [rutas EXCEPT ![paradas[id].ruta_id].estado =
                             EstadoRuta(paradas[id].ruta_id, id, nuevo)]
            /\ resp' = 200
            /\ UNCHANGED <<vinculos, locals, remoto>>
    /\ leido' = NONE

\* PATCH /paradas/{id}/estado with body {estado: nuevo}
ActualizarEstadoParada(id, nuevo) ==
    /\ IF id \notin DOMAIN paradas \/ paradas[id].ruta_id \notin DOMAIN rutas
       THEN /\ resp' = 404
            /\ UNCHANGED <<store, locals, remoto>>
       ELSE /\ paradas' = [paradas EXCEPT ![id].estado = nuevo]
            /\ rutas' = [rutas EXCEPT ![paradas[id].ruta_id].estado =
                             EstadoRuta(paradas[id].ruta_id, id, nuevo)]
            /\ resp' = 200
            /\ UNCHANGED <<vinculos, locals, remoto>>
    /\ leido' = NONE

\* a route is cancelled from outside the service
CancelarRuta(r) ==
    /\ r \in DOMAIN rutas
    /\ rutas[r].estado # CANCELADA
    /\ rutas' = [rutas EXCEPT ![r].estado = CANCELADA]
    /\ UNCHANGED <<paradas, vinculos, locals, remoto, resp>>
    /\ leido' = NONE

(* ------------------- obtener_ruta, listar_rutas_por_fecha -------------- *)

\* a serialization that leaves out the order ids of the stops
SerializaSinPedidos(r) ==
    [id |-> r, fecha |-> rutas[r].fecha, estado |-> rutas[r].estado,
     paradas |-> {[id |-> x, cliente_id |-> paradas[x].cliente_id,
                   direccion |-> paradas[x].direccion, ciudad |-> paradas[x].ciudad,
                   estado |-> paradas[x].estado, orden |-> paradas[x].orden,
                   pedido_ids |-> {}] : x \in ParadasDe(r)}]

\* RutaEntregaOut of the stored route r: its columns, its stops and the order
\* ids linked to each stop
_serialize_ruta(r) ==
    [id |-> r, fecha |-> rutas[r].fecha, estado |-> rutas[r].estado,
     paradas |-> {[id |-> x, cliente_id |-> paradas[x].cliente_id,
                   direccion |-> paradas[x].direccion, ciudad |-> paradas[x].ciudad,
                   estado |-> paradas[x].estado, orden |-> paradas[x].orden,
                   pedido_ids |-> {v[2] : v \in {w \in vinculos : w[1] = x}}]
                  : x \in ParadasDe(r)}]

\* GET /rutas/{ruta_id}
ObtenerRuta(id) ==
    /\ leido' = Some([op |-> "obtener_ruta", arg |-> id,
                      status |-> IF id \in DOMAIN rutas THEN 200 ELSE 404,
                      val |-> IF id \in DOMAIN rutas THEN {_serialize_ruta(id)} ELSE {}])
    /\ UNCHANGED <<store, locals, remoto, resp>>

\* a selection that leaves out the cancelled routes
RutasDeFechaNoCanceladas(f) ==
    {r \in DOMAIN rutas : rutas[r].fecha = f /\ rutas[r].estado # CANCELADA}

\* select(RutaEntrega).where(RutaEntrega.fecha == fecha)
RutasDeFecha(f) == {r \in DOMAIN rutas : rutas[r].fecha = f}

\* GET /rutas?fecha=f
ListarRutasPorFecha(f) ==
    /\ leido' = Some([op |-> "listar_rutas_por_fecha", arg |-> f, status |-> 200,
                      val |-> {_serialize_ruta(r) : r \in RutasDeFecha(f)}])
    /\ UNCHANGED <<store, locals, remoto, resp>>

(* --------------------------- specifications ---------------------------- *)

\* the stop keys a PATCH may name: every stored one and one that is not stored
ParadaIds == DOMAIN paradas \cup {NuevosIds(DOMAIN paradas, 1)[1]}

\* the service: one request at a time runs generar_ruta, between whose steps
\* stops are updated and routes are cancelled; the remote services answer with
\* the basic bodies and do not fail after the fetch
Next ==
    \/ \E f \in Fechas, r \in Respuestas(PedidosBasicos) : Listar(1, f, r, MaxRutas)
    \/ Verificar(1)
    \/ ProcesarPedido(1, {Some(d) : d \in PayloadsBasicos})
    \/ Persistir(1)
    \/ Commit(1)
    \/ Despachar(1, {TRUE})
    \/ Retornar(1)
    \/ Responder(1)
    \/ \E id \in ParadaIds, nuevo \in ParadaEstado : ActualizarEstadoParada(id, nuevo)
    \/ \E r \in DOMAIN rutas : CancelarRuta(r)

Spec == Init /\ [][Next]_vars

\* the route keys a GET may name: every stored one and one that is not stored
RutaIds == DOMAIN rutas \cup {NuevosIds(DOMAIN rutas, 1)[1]}

\* the one body ms-pedidos answers with while the read operations are observed:
\* a list of two orders, which makes a route of two stops
CuerposDeLectura ==
    {[tipo |-> "list",
      items |-> Some(<<[id |-> <<"a">>, cliente_id |-> NONE],
                       [id |-> <<"b">>, cliente_id |-> Some(2)]>>)]}

\* the service with its two read operations: routes are generated, their stops
\* updated and routes cancelled, and between any two steps a GET may be served
NextLectura ==
    \/ \E f \in Fechas, r \in CuerposDeLectura : Listar(1, f, r, MaxRutas)
    \/ Verificar(1)
    \/ ProcesarPedido(1, {Some(d) : d \in PayloadsBasicos})
    \/ Persistir(1)
    \/ Commit(1)
    \/ Despachar(1, {TRUE})
    \/ Retornar(1)
    \/ Responder(1)
    \/ \E id \in ParadaIds, nuevo \in ParadaEstado : ActualizarEstadoParada(id, nuevo)
    \/ \E r \in DOMAIN rutas : CancelarRuta(r)
    \/ \E id \in RutaIds : ObtenerRuta(id)
    \/ \E f \in Fechas : ListarRutasPorFecha(f)

SpecLectura == Init /\ [][NextLectura]_vars

\* concurrent requests running generar_ruta, and routes cancelled from outside
NextConc ==
    \/ \E p \in Procs, f \in Fechas, r \in Respuestas(PedidosBasicos) : Listar(p, f, r, MaxRutas)
    \/ \E p \in Procs : Verificar(p)
    \/ \E p \in Procs : ProcesarPedido(p, {Some(d) : d \in PayloadsBasicos})
    \/ \E p \in Procs : Persistir(p)
    \/ \E p \in Procs : Commit(p)
    \/ \E p \in Procs : Despachar(p, {TRUE})
    \/ \E p \in Procs : Retornar(p)
    \/ \E p \in Procs : Responder(p)
    \/ \E r \in DOMAIN rutas : CancelarRuta(r)

SpecConc == Init /\ [][NextConc]_vars

\* one generar_ruta request on the empty store, with every remote answer
NextAgg ==
    \/ \E r \in Respuestas(Pedidos) : Listar(1, 1, r, 1)
    \/ Verificar(1)
    \/ ProcesarPedido(1, RespuestasUsuario(Payloads))
    \/ Persistir(1)
    \/ Commit(1)
    \/ Despachar(1, BOOLEAN)
    \/ Retornar(1)
    \/ Responder(1)

SpecAgg == Init /\ [][NextAgg]_vars

(* ------------------------------ claims --------------------------------- *)

\* the routes of date f whose status is not CANCELLED, read off the table
NoCanceladas(f) == {r \in DOMAIN rutas : rutas[r].fecha = f /\ rutas[r].estado # CANCELADA}

\* p's fetched list holds an order whose id is a UUID
TieneValido(p) == \E i \in 1..Len(pedidos[p]) : ParseUUID(pedidos[p][i].id) # NONE

\* C1: in every reachable state each delivery date has at most one Route
\* whose status is not CANCELLED.
C1_UnaRutaActivaPorFecha == \A f \in Fechas : Cardinality(NoCanceladas(f)) <= 1

\* C2: a generateRoute call that passed the duplicate check (its date had no
\* non-cancelled Route) and fetched at least one order with a valid id ends
\* with 201 Created.
C2_GenerarTieneExito ==
    \A p \in Procs :
        (pc[p] = "fin" /\ resultado[p].status \notin {404, 409} /\ TieneValido(p))
            => resultado[p] = Creada

\* C3: a generateRoute(D) call that reaches the duplicate check while D has a
\* Route that is not CANCELLED ends there with 409 Conflict, the store is
\* unchanged, nothing of the call is pending or created, and it has sent no
\* mark-dispatched request.
C3_ConflictoSinEfectos ==
    [][\A p \in Procs :
        (/\ pc[p] = "verificar"
         /\ pc'[p] # "verificar"
         /\ \E r \in DOMAIN rutas : rutas[r].fecha = fecha[p] /\ rutas[r].estado # CANCELADA)
        => /\ pc'[p] = "fin"
           /\ resultado'[p] = Conflicto
           /\ store' = store
           /\ tx'[p] = TxVacia
           /\ ruta'[p] = NONE
           /\ enviados'[p] = <<>>]_vars

\* a request has ended with 409 on a date that has a non-cancelled Route
C3_Witness ==
    \E p \in Procs :
        pc[p] = "fin" /\ resultado[p] = Conflicto /\ NoCanceladas(fecha[p]) # {}

\* C4: the commit of a generateRoute call is never rejected on account of
\* its date: whenever a call commits a session whose links are pairwise
\* distinct, its Route is stored, also when the date already has a
\* non-cancelled Route (committed by a call that ran the check concurrently).
C4_CommitNoVerificaFecha ==
    [][\A p \in Procs :
        (/\ pc[p] = "commit"
         /\ pc'[p] # "commit"
         /\ \A i, j \in 1..Len(tx[p].vinculos) :
                i < j => tx[p].vinculos[i] # tx[p].vinculos[j])
        => /\ tx[p].ruta[1].id \in DOMAIN rutas'
           /\ rutas'[tx[p].ruta[1].id].estado = PLANEADA
           /\ rutas'[tx[p].ruta[1].id].fecha = fecha[p]]_vars

\* two calls for one date have both committed, and both Routes are PLANNED
C4_Witness ==
    \E p, q \in Procs :
        /\ p # q
        /\ pc[p] \in {"despachar", "fin"} /\ pc[q] \in {"despachar", "fin"}
        /\ ruta[p] # NONE /\ ruta[q] # NONE
        /\ ruta[p][1] \in DOMAIN rutas /\ ruta[q][1] \in DOMAIN rutas
        /\ ruta[p][1] # ruta[q][1]
        /\ fecha[p] = fecha[q]
        /\ rutas[ruta[p][1]].fecha = fecha[p] /\ rutas[ruta[q][1]].fecha = fecha[p]
        /\ rutas[ruta[p][1]].estado = PLANEADA /\ rutas[ruta[q][1]].estado = PLANEADA

\* the rows of table parada that belong to route r, in the state as it is
StopsOf(r) == {x \in DOMAIN paradas : paradas[x].ruta_id = r}

\* the sum of the lengths of the order lists of the groups gs
RECURSIVE NumPedidos(_)
NumPedidos(gs) == IF gs = <<>> THEN 0 ELSE Len(Head(gs).lista) + NumPedidos(Tail(gs))

\* C5: the Route, Stops and OrderLinks of one generateRoute call become
\* visible in one step. While the call has not committed, none of its rows
\* is in the store; once its Route is in the store, so are a Stop for every
\* group and a link for every grouped order; a call that failed has left
\* nothing; and no Stop or link is ever stored without its parent row.
C5_CommitAtomico ==
    /\ \A x \in DOMAIN paradas : paradas[x].ruta_id \in DOMAIN rutas
    /\ \A v \in vinculos : v[1] \in DOMAIN paradas
    /\ \A p \in Procs :
        /\ pc[p] = "commit" =>
            /\ tx[p].ruta[1].id \notin DOMAIN rutas
            /\ StopsOf(tx[p].ruta[1].id) = {}
            /\ \A i \in 1..Len(tx[p].paradas) : tx[p].paradas[i].id \notin DOMAIN paradas
            /\ \A i \in 1..Len(tx[p].vinculos) : tx[p].vinculos[i] \notin vinculos
        /\ (ruta[p] # NONE /\ ruta[p][1] \in DOMAIN rutas) =>
            /\ pc[p] \in {"despachar", "fin"}
            /\ Cardinality(StopsOf(ruta[p][1])) = Len(grupos[p])
            /\ Cardinality({v \in vinculos : v[1] \in StopsOf(ruta[p][1])}) = NumPedidos(grupos[p])
        /\ (pc[p] = "fin" /\ resultado[p] # Creada /\ ruta[p] # NONE) =>
            /\ ruta[p][1] \notin DOMAIN rutas
            /\ StopsOf(ruta[p][1]) = {}

\* one call is about to commit a route of two stops while the other one has
\* committed its own and a third request could read the store
C5_Witness ==
    \E p, q \in Procs :
        /\ pc[p] = "commit" /\ Len(tx[p].paradas) = 2 /\ Len(tx[p].vinculos) = 2
        /\ pc[q] = "despachar" /\ Cardinality(StopsOf(ruta[q][1])) = 2

\* the grouping key of the i-th fetched order of p, from the answer that
\* ms-usuarios gave for its customer
ClaveDe(p, i) ==
    LET cid == pedidos[p][i].cliente_id
        info == IF cid # NONE /\ cid[1] # 0 /\ cid[1] \in DOMAIN cache[p]
                THEN cache[p][cid[1]] ELSE [direccion |-> NONE, ciudad |-> NONE]
    IN  <<cid, _normalize(info.direccion), _normalize(info.ciudad)>>

\* the fetched orders of p with a valid id, by position
Validos(p) == {i \in 1..Len(pedidos[p]) : ParseUUID(pedidos[p][i].id) # NONE}

\* the order id i of p's list is fetched with one grouping key only
ClaveUnica(p, i) ==
    \A j \in Validos(p) :
        ParseUUID(pedidos[p][j].id) = ParseUUID(pedidos[p][i].id) => ClaveDe(p, j) = ClaveDe(p, i)

\* C6: in the Route a generateRoute call has committed, two fetched orders
\* (two valid order ids, each fetched with one grouping key) are linked to
\* one Stop if and only if their grouping keys (customer id, normalized
\* address, normalized city) are equal.
C6_AgrupaPorClave ==
    \A p \in Procs :
        (pc[p] \in {"despachar", "fin"} /\ ruta[p] # NONE /\ ruta[p][1] \in DOMAIN rutas) =>
            \A i, j \in Validos(p) :
                LET a == ParseUUID(pedidos[p][i].id)[1]
                    b == ParseUUID(pedidos[p][j].id)[1]
                IN  (a # b /\ ClaveUnica(p, i) /\ ClaveUnica(p, j)) =>
                        ((\E x \in StopsOf(ruta[p][1]) :
                              <<x, a>> \in vinculos /\ <<x, b>> \in vinculos)
                          <=> ClaveDe(p, i) = ClaveDe(p, j))

\* a committed Route with one Stop that holds two orders of one customer, and
\* one with two Stops for two customers
C6_Witness ==
    \E i, j \in Validos(1) :
        /\ pc[1] = "despachar" /\ ruta[1] # NONE
        /\ ParseUUID(pedidos[1][i].id) # ParseUUID(pedidos[1][j].id)
        /\ ClaveDe(1, i) = ClaveDe(1, j)
        /\ ClaveDe(1, i)[2] = Some(<<"k">>)
        /\ Cardinality(StopsOf(ruta[1][1])) = 1

\* s sorts before t as Python compares two str
LexMenor(s, t) ==
    \E k \in 1..(Len(t)) :
        /\ \A i \in 1..(k - 1) : i <= Len(s) /\ s[i] = t[i]
        /\ \/ k = Len(s) + 1
           \/ k <= Len(s) /\ Ord(s[k]) < Ord(t[k])

\* the sort key that the stored Stop x stands for
ClaveOrden(x) ==
    LET d == _normalize(paradas[x].direccion)
        c == _normalize(paradas[x].ciudad)
    IN  <<Str(paradas[x].cliente_id),
          IF c = NONE THEN <<>> ELSE c[1],
          IF d = NONE THEN <<>> ELSE d[1]>>

TuplaMenor(a, b) ==
    \/ LexMenor(a[1], b[1])
    \/ a[1] = b[1] /\ LexMenor(a[2], b[2])
    \/ a[1] = b[1] /\ a[2] = b[2] /\ LexMenor(a[3], b[3])

\* C7: the Stops of the Route a generateRoute call has committed carry the
\* order values 1..n, each once, and a Stop with a smaller order value has
\* the smaller key (customer id as a string, normalized city, normalized
\* address; a missing one counts as the empty string).
C7_OrdenDeParadas ==
    \A p \in Procs :
        (pc[p] \in {"despachar", "fin"} /\ ruta[p] # NONE /\ ruta[p][1] \in DOMAIN rutas) =>
            LET S == StopsOf(ruta[p][1])
            IN  /\ {paradas[x].orden : x \in S} = 1..Cardinality(S)
                /\ \A x, y \in S : paradas[x].orden = paradas[y].orden => x = y
                /\ \A x, y \in S :
                       paradas[x].orden < paradas[y].orden
                           => TuplaMenor(ClaveOrden(x), ClaveOrden(y))

\* a committed Route whose first Stop is customer 10 and whose second is
\* customer 2, fetched in the other order
C7_Witness ==
    /\ pc[1] = "despachar" /\ ruta[1] # NONE
    /\ Len(pedidos[1]) = 2
    /\ pedidos[1][1].cliente_id = Some(2) /\ pedidos[1][2].cliente_id = Some(10)
    /\ \E x, y \in StopsOf(ruta[1][1]) :
           /\ paradas[x].orden = 1 /\ paradas[x].cliente_id = Some(10)
           /\ paradas[y].orden = 2 /\ paradas[y].cliente_id = Some(2)

\* C8: an updateStopStatus call that succeeds and leaves every Stop of the
\* owning Route DELIVERED leaves the Route COMPLETED; on a PLANNED Route with
\* Stops [PENDING, PENDING], delivering one of them leaves it IN_PROGRESS.
C8_TodasEntregadasFinaliza ==
    [][\A id \in DOMAIN paradas, nuevo \in ParadaEstado :
        (ActualizarEstadoParada(id, nuevo) /\ resp' = 200) =>
            LET r == paradas[id].ruta_id
                S == {x \in DOMAIN paradas' : paradas'[x].ruta_id = r}
            IN  /\ (\A x \in S : paradas'[x].estado = ENTREGADA)
                       => rutas'[r].estado = FINALIZADA
                /\ (/\ rutas[r].estado = PLANEADA
                    /\ Cardinality(S) = 2
                    /\ \A x \in S : paradas[x].estado = PENDIENTE
                    /\ nuevo = ENTREGADA)
                       => rutas'[r].estado = EN_RUTA]_vars

\* a Route of two Stops, both DELIVERED by successful updates, is COMPLETED
C8_Witness ==
    \E r \in DOMAIN rutas :
        /\ resp = 200
        /\ rutas[r].estado = FINALIZADA
        /\ Cardinality(StopsOf(r)) = 2
        /\ \A x \in StopsOf(r) : paradas[x].estado = ENTREGADA

\* C9: an updateStopStatus call on a Stop of a PLANNED Route that does not
\* leave every Stop of the Route DELIVERED leaves the Route IN_PROGRESS when
\* the new stop status is DELIVERED or FAILED, and PLANNED when it is PENDING.
C9_PlaneadaPasaAEnRuta ==
    [][\A id \in DOMAIN paradas, nuevo \in ParadaEstado :
        (/\ ActualizarEstadoParada(id, nuevo)
         /\ resp' = 200
         /\ rutas[paradas[id].ruta_id].estado = PLANEADA
         /\ \E x \in DOMAIN paradas' :
                paradas'[x].ruta_id = paradas[id].ruta_id /\ paradas'[x].estado # ENTREGADA)
        => rutas'[paradas[id].ruta_id].estado =
               (IF nuevo \in {ENTREGADA, FALLIDA} THEN EN_RUTA ELSE PLANEADA)]_vars

\* a Route that a FAILED Stop has moved to IN_PROGRESS while its other Stop
\* is PENDING
C9_Witness ==
    \E r \in DOMAIN rutas :
        /\ resp = 200
        /\ rutas[r].estado = EN_RUTA
        /\ \E x, y \in StopsOf(r) :
               paradas[x].estado = FALLIDA /\ paradas[y].estado = PENDIENTE

\* C10: a Stop whose status is DELIVERED or FAILED keeps that status in
\* every later step.
C10_ParadaTerminal ==
    [][\A x \in DOMAIN paradas :
        paradas[x].estado \in {ENTREGADA, FALLIDA}
            => paradas'[x].estado = paradas[x].estado]_vars

\* C11: an updateStopStatus call on a Stop of a Route whose status is
\* CANCELLED leaves the Route CANCELLED, whatever the new stop status.
C11_CanceladaEsTerminal ==
    [][\A id \in DOMAIN paradas, nuevo \in ParadaEstado :
        (/\ ActualizarEstadoParada(id, nuevo)
         /\ resp' = 200
         /\ rutas[paradas[id].ruta_id].estado = CANCELADA)
        => rutas'[paradas[id].ruta_id].estado = CANCELADA]_vars

\* C12: an updateStopStatus call after which a Stop of the owning Route is
\* FAILED does not move the Route to COMPLETED, and one after which every Stop
\* of a Route that was PLANNED or IN_PROGRESS is FAILED leaves it IN_PROGRESS.
C12_FallidaNoFinaliza ==
    [][\A id \in DOMAIN paradas, nuevo \in ParadaEstado :
        (ActualizarEstadoParada(id, nuevo) /\ resp' = 200) =>
            LET r == paradas[id].ruta_id
                S == {x \in DOMAIN paradas' : paradas'[x].ruta_id = r}
            IN  /\ (/\ \E x \in S : paradas'[x].estado = FALLIDA
                    /\ rutas[r].estado # FINALIZADA)
                       => rutas'[r].estado # FINALIZADA
                /\ (/\ \A x \in S : paradas'[x].estado = FALLIDA
                    /\ rutas[r].estado \in {PLANEADA, EN_RUTA})
                       => rutas'[r].estado = EN_RUTA]_vars

\* a Route of two Stops, both FAILED by successful updates, is IN_PROGRESS
C12_Witness ==
    \E r \in DOMAIN rutas :
        /\ resp = 200
        /\ rutas[r].estado = EN_RUTA
        /\ Cardinality(StopsOf(r)) = 2
        /\ \A x \in StopsOf(r) : paradas[x].estado = FALLIDA

\* C13: markDispatched makes at most 3 POST attempts and never raises. Its
\* attempt number k (1, 2 or 3) follows k - 1 failed attempts for the same
\* order; when it succeeds the function returns true at once, when it fails
\* and k < 3 the function goes on to attempt k + 1, and when the third
\* attempt fails the function returns false.
C13_MarcarDespachado ==
    [][\A p \in Procs :
        (pc[p] = "despachar" /\ enviados'[p] # enviados[p]) =>
            LET k == intento[p]
                n == Len(enviados'[p])
                este == enviados'[p][n]
            IN  /\ n = Len(enviados[p]) + 1
                /\ k \in {1, 2, 3}
                /\ n >= k
                /\ \A i \in 1..(k - 1) :
                       /\ enviados'[p][n - i].exito = FALSE
                       /\ enviados'[p][n - i].pedido_id = este.pedido_id
                /\ pc'[p] = "despachar"
                /\ resultado'[p] = resultado[p]
                /\ IF este.exito
                   THEN /\ ok'[p] = Some(TRUE)
                        /\ idx'[p] = idx[p] + 1
                        /\ intento'[p] = 1
                   ELSE IF k < 3
                   THEN /\ ok'[p] = ok[p]
                        /\ idx'[p] = idx[p]
                        /\ intento'[p] = k + 1
                   ELSE /\ ok'[p] = Some(FALSE)
                        /\ idx'[p] = idx[p] + 1
                        /\ intento'[p] = 1]_vars

\* the first order was attempted three times in vain and the function returned
\* false; the second failed twice, succeeded, and the function returned true
C13_Witness ==
    /\ pc[1] = "despachar"
    /\ Len(enviados[1]) = 6
    /\ \A i \in {1, 2, 3, 4, 5} : ~enviados[1][i].exito
    /\ enviados[1][6].exito
    /\ ok[1] = Some(TRUE)
    /\ all_ok[1] = FALSE
    /\ idx[1] = 3

\* C14: a generateRoute call of which a mark-dispatched attempt has failed
\* keeps its Route committed with a Stop for every group and a link for every
\* grouped order, goes on through the dispatch loop, and ends with 201.
C14_FalloDeDespachoNoCambiaResultado ==
    \A p \in Procs :
        (\E i \in 1..Len(enviados[p]) : ~enviados[p][i].exito) =>
            /\ pc[p] \in {"despachar", "fin"}
            /\ ruta[p] # NONE
            /\ ruta[p][1] \in DOMAIN rutas
            /\ rutas[ruta[p][1]].fecha = fecha[p]
            /\ Cardinality(StopsOf(ruta[p][1])) = Len(grupos[p])
            /\ Cardinality({v \in vinculos : v[1] \in StopsOf(ruta[p][1])}) = NumPedidos(grupos[p])
            /\ pc[p] = "fin" => resultado[p] = Creada

\* a call has ended with 201 although all six attempts for its two orders
\* failed, and its Route and two Stops are stored
C14_Witness ==
    /\ pc[1] = "fin"
    /\ resultado[1] = Creada
    /\ all_ok[1] = FALSE
    /\ Len(enviados[1]) = 6
    /\ \A i \in 1..6 : ~enviados[1][i].exito
    /\ ruta[1][1] \in DOMAIN rutas
    /\ Cardinality(StopsOf(ruta[1][1])) = 2

\* C15: a generateRoute call has sent a mark-dispatched request only if its
\* Route is committed (the row is stored and nothing of the call is pending),
\* and a call that has ended with a failure has sent none.
C15_DespachoTrasCommit ==
    \A p \in Procs :
        /\ enviados[p] # <<>> =>
            /\ pc[p] \in {"despachar", "fin"}
            /\ ruta[p] # NONE
            /\ ruta[p][1] \in DOMAIN rutas
            /\ tx[p] = TxVacia
        /\ pc[p] \in {"idle", "verificar", "enriquecer", "commit"} => enviados[p] = <<>>
        /\ (pc[p] = "fin" /\ resultado[p] # Creada) => enviados[p] = <<>>

\* a call has sent its first mark-dispatched request, its Route being stored
C15_Witness ==
    \E p \in Procs :
        /\ pc[p] = "despachar"
        /\ Len(enviados[p]) = 1
        /\ ruta[p][1] \in DOMAIN rutas
        /\ StopsOf(ruta[p][1]) # {}

\* the body r holds no order: an empty list, an envelope whose items are
\* empty or missing, or another JSON value
CuerpoVacio(r) == r.tipo # "error" /\ (r.items = NONE \/ r.items[1] = <<>>)

\* C16: a generateRoute call whose fetch is answered with no order ends at
\* once with 404 and the fixed message, leaves the store as it is, has created
\* and left pending no row, has made no customer lookup and has sent no
\* mark-dispatched request.
C16_SinPedidosDa404 ==
    [][\A p \in Procs, f \in Fechas, r \in Respuestas(PedidosBasicos) :
        (Listar(p, f, r, MaxRutas) /\ CuerpoVacio(r)) =>
            /\ pc'[p] = "fin"
            /\ resultado'[p].status = 404
            /\ resultado'[p].detail =
                   "No hay ventas para generar ruta de entrega en la fecha seleccionada."
            /\ store' = store
            /\ tx'[p] = TxVacia
            /\ ruta'[p] = NONE
            /\ consultas'[p] = <<>>
            /\ enviados'[p] = <<>>]_vars

\* a call answered with the empty list has ended with the 404 of "no orders"
\* while a Route is stored
C16_Witness ==
    \E p \in Procs :
        /\ pc[p] = "fin"
        /\ cuerpo[p] = Some([tipo |-> "list", items |-> Some(<<>>)])
        /\ resultado[p].status = 404
        /\ consultas[p] = <<>> /\ enviados[p] = <<>>
        /\ DOMAIN rutas # {}

\* C17: a generateRoute call whose fetch raises ends at once with 404, the
\* status of "no orders", and leaves the store as it is, with no row created
\* or pending.
C17_ErrorDeConsultaDa404 ==
    [][\A p \in Procs, f \in Fechas, r \in Respuestas(PedidosBasicos) :
        (Listar(p, f, r, MaxRutas) /\ r.tipo = "error") =>
            /\ pc'[p] = "fin"
            /\ resultado'[p].status = 404
            /\ resultado'[p].status = SinVentas.status
            /\ store' = store
            /\ tx'[p] = TxVacia
            /\ ruta'[p] = NONE]_vars

\* a call whose fetch raised has ended with 404 while a Route is stored
C17_Witness ==
    \E p \in Procs :
        /\ pc[p] = "fin"
        /\ cuerpo[p] # NONE /\ cuerpo[p][1].tipo = "error"
        /\ resultado[p].status = 404
        /\ resultado[p] # SinVentas
        /\ DOMAIN rutas # {}

\* C18: the call takes a non-empty bare list, or the non-empty items of an
\* envelope, for its order list and goes on to the duplicate check; an
\* envelope without items, an empty list and any other JSON value end it with
\* the 404 of "no orders".
C18_FormasDeRespuesta ==
    \A p \in Procs :
        cuerpo[p] # NONE =>
            LET r == cuerpo[p][1]
            IN  /\ (r.tipo \in {"list", "dict"} /\ r.items # NONE /\ r.items[1] # <<>>)
                       => pc[p] = "verificar" /\ pedidos[p] = r.items[1]
                /\ (r.tipo = "dict" /\ r.items = NONE)
                       => pc[p] = "fin" /\ resultado[p] = SinVentas /\ pedidos[p] = <<>>
                /\ (r.tipo \in {"list", "dict"} /\ r.items = Some(<<>>))
                       => pc[p] = "fin" /\ resultado[p] = SinVentas /\ pedidos[p] = <<>>
                /\ r.tipo = "otro"
                       => pc[p] = "fin" /\ resultado[p] = SinVentas /\ pedidos[p] = <<>>

\* the two orders of an envelope's items are the call's order list
C18_Witness ==
    /\ pc[1] = "verificar"
    /\ cuerpo[1] # NONE
    /\ cuerpo[1][1].tipo = "dict"
    /\ cuerpo[1][1].items # NONE
    /\ Len(cuerpo[1][1].items[1]) = 2
    /\ pedidos[1] = cuerpo[1][1].items[1]

\* the customers of p whose lookup has failed
ClientesFallidos(p) ==
    {consultas[p][i].cliente_id : i \in {j \in 1..Len(consultas[p]) : ~consultas[p][j].exito}}

\* C19: a generateRoute call in which a customer lookup has failed still ends
\* with its Route committed, and every fetched order with a valid id of a
\* customer whose lookup failed is linked to a Stop of that Route that has no
\* address and no city.
C19_FalloDeConsultaNoAborta ==
    \A p \in Procs :
        (pc[p] = "fin" /\ ClientesFallidos(p) # {}) =>
            /\ resultado[p] = Creada
            /\ ruta[p] # NONE
            /\ ruta[p][1] \in DOMAIN rutas
            /\ \A i \in Validos(p) :
                   (/\ pedidos[p][i].cliente_id # NONE
                    /\ pedidos[p][i].cliente_id[1] \in ClientesFallidos(p))
                   => \E x \in StopsOf(ruta[p][1]) :
                          /\ <<x, ParseUUID(pedidos[p][i].id)[1]>> \in vinculos
                          /\ paradas[x].cliente_id = pedidos[p][i].cliente_id
                          /\ paradas[x].direccion = NONE
                          /\ paradas[x].ciudad = NONE

\* the customers that the orders of the list l with a valid id name (a
\* customer id that is not None and not 0), each once, in the order in which
\* they first occur
RECURSIVE PrimerasApariciones(_)
PrimerasApariciones(l) ==
    IF l = <<>> THEN <<>>
    ELSE LET antes == PrimerasApariciones(SubSeq(l, 1, Len(l) - 1))
             ped == l[Len(l)]
         IN  IF /\ ParseUUID(ped.id) # NONE
                /\ ped.cliente_id # NONE
                /\ ped.cliente_id[1] # 0
                /\ \A i \in 1..Len(antes) : antes[i] # ped.cliente_id[1]
             THEN Append(antes, ped.cliente_id[1])
             ELSE antes

\* the orders of p that its enrichment loop has gone through
Procesados(p) ==
    CASE pc[p] = "enriquecer" -> SubSeq(pedidos[p], 1, idx[p] - 1)
      [] pc[p] \in {"commit", "despachar"} -> pedidos[p]
      [] pc[p] = "fin" /\ ruta[p] # NONE -> pedidos[p]
      [] OTHER -> <<>>

\* C20: the customer lookups a generateRoute call has sent are, in order, the
\* first occurrences of the customer ids of the valid orders it has processed:
\* one lookup per distinct customer, whether it succeeded or failed, none for
\* an order without customer id, and none saved by the lookups of another call.
C20_UnaConsultaPorCliente ==
    \A p \in Procs :
        [i \in 1..Len(consultas[p]) |-> consultas[p][i].cliente_id]
            = PrimerasApariciones(Procesados(p))

\* two orders of customer 2 have been processed with one lookup, which failed
C20_Witness ==
    /\ pc[1] = "commit"
    /\ Len(pedidos[1]) = 2
    /\ pedidos[1][1].cliente_id = Some(2) /\ pedidos[1][2].cliente_id = Some(2)
    /\ ParseUUID(pedidos[1][1].id) = Some(<<"a">>)
    /\ ParseUUID(pedidos[1][2].id) = Some(<<"b">>)
    /\ consultas[1] = <<[cliente_id |-> 2, exito |-> FALSE]>>

\* the raw id is no UUID: it is empty or holds a character that is no hex digit
Malformado(raw) ==
    \/ raw = <<>>
    \/ \E i \in 1..Len(raw) :
           raw[i] \notin {"0", "1", "2", "3", "4", "5", "6", "7", "8", "9",
                          "a", "b", "c", "d", "e", "f", "A", "B", "C", "D", "E", "F"}

\* the positions among the first n of p's list whose id is well formed
BienFormados(p, n) == {i \in 1..n : ~Malformado(pedidos[p][i].id)}

\* C21: the turn of either loop of generateRoute that meets an order with a
\* malformed id only moves on to the next order: the call goes on, and its
\* groups, cache, lookups, requests sent, pending rows and the store are as
\* they were. At any time the groups hold one entry per well-formed order
\* processed, and every mark-dispatched request names a well-formed order.
C21_MalformadoSeOmite ==
    /\ [][\A p \in Procs :
            (/\ pc[p] \in {"enriquecer", "despachar"}
             /\ idx[p] <= Len(pedidos[p])
             /\ Malformado(pedidos[p][idx[p]].id)
             /\ idx'[p] # idx[p])
            => /\ idx'[p] = idx[p] + 1
               /\ pc'[p] = pc[p]
               /\ resultado'[p] = resultado[p]
               /\ grupos'[p] = grupos[p]
               /\ cache'[p] = cache[p]
               /\ consultas'[p] = consultas[p]
               /\ enviados'[p] = enviados[p]
               /\ all_ok'[p] = all_ok[p]
               /\ ok'[p] = ok[p]
               /\ tx'[p] = tx[p]
               /\ store' = store]_vars
    /\ [](\A p \in Procs :
            /\ pc[p] = "enriquecer" =>
                   NumPedidos(grupos[p]) = Cardinality(BienFormados(p, idx[p] - 1))
            /\ pc[p] \in {"commit", "despachar"} =>
                   NumPedidos(grupos[p]) = Cardinality(BienFormados(p, Len(pedidos[p])))
            /\ \A i \in 1..Len(enviados[p]) :
                   \E j \in BienFormados(p, Len(pedidos[p])) :
                       enviados[p][i].pedido_id = Casefold(pedidos[p][j].id))

\* a call that fetched a malformed id and then a valid one has ended with 201:
\* its Route has one Stop with one link, and every request it sent names the
\* valid order
C21_Witness ==
    /\ pc[1] = "fin"
    /\ resultado[1] = Creada
    /\ Len(pedidos[1]) = 2
    /\ pedidos[1][1].id = <<"x">>
    /\ pedidos[1][2].id = <<"a">>
    /\ Cardinality(StopsOf(ruta[1][1])) = 1
    /\ vinculos = {<<x, <<"a">>>> : x \in StopsOf(ruta[1][1])}
    /\ enviados[1] # <<>>
    /\ \A i \in 1..Len(enviados[1]) : enviados[1][i].pedido_id = <<"a">>

\* what a reader of the three tables sees of route r: its date and status and,
\* for each of its stops, the columns of the stop and the order ids linked to it
VistaDe(r) ==
    [id |-> r, fecha |-> rutas[r].fecha, estado |-> rutas[r].estado,
     paradas |-> {[id |-> x, cliente_id |-> paradas[x].cliente_id,
                   direccion |-> paradas[x].direccion, ciudad |-> paradas[x].ciudad,
                   estado |-> paradas[x].estado, orden |-> paradas[x].orden,
                   pedido_ids |-> {o \in {v[2] : v \in vinculos} : <<x, o>> \in vinculos}]
                  : x \in {y \in DOMAIN paradas : paradas[y].ruta_id = r}}]

\* C22: a getRoute call changes nothing in the store or in a running request;
\* for a stored id it answers 200 with the Route's status, Stops and order ids
\* as the store holds them before and after the call, so that a second call
\* with no mutation in between returns the same data; for an id that is not
\* stored it answers 404.
C22_ObtenerRutaSoloLee ==
    [][\A id \in RutaIds :
        (leido' # NONE /\ leido'[1].op = "obtener_ruta" /\ leido'[1].arg = id) =>
            /\ store' = store
            /\ locals' = locals
            /\ remoto' = remoto
            /\ id \in DOMAIN rutas =>
                   /\ leido'[1].status = 200
                   /\ leido'[1].val = {VistaDe(id)}
                   /\ leido'[1].val = {VistaDe(id)}'
            /\ id \notin DOMAIN rutas =>
                   /\ leido'[1].status = 404
                   /\ leido'[1].val = {}]_vars

\* a getRoute call has returned a COMPLETED Route with its two Stops, one of
\* them linked to order b
C22_Witness ==
    /\ leido # NONE
    /\ leido[1].op = "obtener_ruta"
    /\ leido[1].status = 200
    /\ \E v \in leido[1].val :
           /\ v.estado = FINALIZADA
           /\ Cardinality(v.paradas) = 2
           /\ \E x \in v.paradas : x.pedido_ids = {<<"b">>}

\* C23: a listRoutesByDate call changes nothing in the store or in a running
\* request and answers 200 with exactly the Routes stored for the date,
\* whatever their status; with no Route for the date the answer is empty.
C23_ListarPorFecha ==
    [][(leido' # NONE /\ leido'[1].op = "listar_rutas_por_fecha") =>
        LET f == leido'[1].arg
        IN  /\ store' = store
            /\ locals' = locals
            /\ remoto' = remoto
            /\ leido'[1].status = 200
            /\ leido'[1].val = {VistaDe(r) : r \in {q \in DOMAIN rutas : rutas[q].fecha = f}}
            /\ (\A q \in DOMAIN rutas : rutas[q].fecha # f) => leido'[1].val = {}]_vars

\* a listRoutesByDate call has returned the two Routes of a date, one of them
\* CANCELLED and the other COMPLETED
C23_Witness ==
    /\ leido # NONE
    /\ leido[1].op = "listar_rutas_por_fecha"
    /\ Cardinality(leido[1].val) = 2
    /\ \E v, w \in leido[1].val : v.estado = CANCELADA /\ w.estado = FINALIZADA

\* C24: an updateStopStatus call that names a stop id which is not stored
\* answers 404 and leaves every Stop and every Route as it was.
C24_ParadaInexistenteDa404 ==
    [][\A id \in ParadaIds, nuevo \in ParadaEstado :
        (ActualizarEstadoParada(id, nuevo) /\ id \notin DOMAIN paradas) =>
            /\ resp' = 404
            /\ paradas' = paradas
            /\ rutas' = rutas
            /\ vinculos' = vinculos]_vars

\* the last updateStopStatus call was answered 404 while a Route with Stops
\* is stored
C24_Witness ==
    /\ resp = 404
    /\ leido = NONE
    /\ DOMAIN paradas # {}
    /\ \E r \in DOMAIN rutas : rutas[r].estado = EN_RUTA

\* C25: a generateRoute call whose fetch is answered with no order, for a date
\* that has a Route which is not CANCELLED, ends with the 404 of "no orders",
\* not with 409.
C25_VacioAntesQueConflicto ==
    [][\A p \in Procs, f \in Fechas, r \in Respuestas(PedidosBasicos) :
        (/\ Listar(p, f, r, MaxRutas)
         /\ r.tipo # "error"
         /\ (r.items = NONE \/ r.items[1] = <<>>)
         /\ \E q \in DOMAIN rutas : rutas[q].fecha = f /\ rutas[q].estado # CANCELADA)
        => /\ pc'[p] = "fin"
           /\ resultado'[p] = SinVentas
           /\ resultado'[p].status # 409]_vars

\* a call for a date that has a PLANNED Route, answered with an envelope of no
\* items, has ended with the 404 of "no orders"
C25_Witness ==
    \E p \in Procs :
        /\ pc[p] = "fin"
        /\ cuerpo[p] = Some([tipo |-> "dict", items |-> Some(<<>>)])
        /\ resultado[p] = SinVentas
        /\ \E q \in DOMAIN rutas : rutas[q].fecha = fecha[p] /\ rutas[q].estado = PLANEADA

\* C26: a generateRoute call for a date that has a CANCELLED Route, which
\* passed the duplicate check and fetched at least one valid order, ends with
\* 201 and has its new Route in the store next to the cancelled one.
C26_CanceladasNoBloquean ==
    \A p \in Procs :
        (/\ pc[p] = "fin"
         /\ resultado[p].status \notin {404, 409}
         /\ TieneValido(p)
         /\ \E r \in DOMAIN rutas : /\ rutas[r].fecha = fecha[p]
                                    /\ rutas[r].estado = CANCELADA
                                    /\ ruta[p] # Some(r))
        => /\ resultado[p] = Creada
           /\ ruta[p] # NONE
           /\ ruta[p][1] \in DOMAIN rutas

\* the order of PLANNED, IN_PROGRESS and COMPLETED
Rango(estado) ==
    CASE estado = PLANEADA -> 1
      [] estado = EN_RUTA -> 2
      [] estado = FINALIZADA -> 3
      [] OTHER -> 0

\* C27: an updateStopStatus call never moves the status of a Route that is
\* not CANCELLED backwards along PLANNED, IN_PROGRESS, COMPLETED (an
\* IN_PROGRESS Route does not become PLANNED, a COMPLETED Route stays
\* COMPLETED), and it sets no Route to CANCELLED.
C27_EstadoSoloAvanza ==
    [][\A id \in ParadaIds, nuevo \in ParadaEstado :
        ActualizarEstadoParada(id, nuevo) =>
            \A r \in DOMAIN rutas :
                rutas[r].estado # CANCELADA =>
                    /\ r \in DOMAIN rutas'
                    /\ rutas'[r].estado # CANCELADA
                    /\ Rango(rutas'[r].estado) >= Rango(rutas[r].estado)]_vars

\* a successful update has left a Route COMPLETED although one of its Stops is
\* no longer DELIVERED, and an IN_PROGRESS Route has all its Stops PENDING
C27_Witness ==
    /\ resp = 200
    /\ \E r \in DOMAIN rutas :
           /\ rutas[r].estado = FINALIZADA
           /\ \E x \in StopsOf(r) : paradas[x].estado = PENDIENTE
    /\ \E r \in DOMAIN rutas :
           /\ rutas[r].estado = EN_RUTA
           /\ StopsOf(r) # {}
           /\ \A x \in StopsOf(r) : paradas[x].estado = PENDIENTE

\* C28: in every reachable state all the Stops of a COMPLETED Route are
\* DELIVERED.
C28_FinalizadaTodasEntregadas ==
    \A r \in DOMAIN rutas :
        rutas[r].estado = FINALIZADA =>
            \A x \in StopsOf(r) : paradas[x].estado = ENTREGADA

\* C29: every Route in the store has at least one Stop.
C29_RutaConParadas == \A r \in DOMAIN rutas : StopsOf(r) # {}

\* the UUIDs of the valid orders p fetched
IdsValidos(p) == {ParseUUID(pedidos[p][i].id)[1] : i \in Validos(p)}

\* C30: when the valid orders a generateRoute call fetched have pairwise
\* distinct UUIDs, the Route it has committed links each of them to exactly
\* one of its Stops, links no other order id, and has no Stop without a link.
C30_CadaPedidoEnUnaParada ==
    \A p \in Procs :
        (/\ pc[p] \in {"despachar", "fin"}
         /\ ruta[p] # NONE
         /\ ruta[p][1] \in DOMAIN rutas
         /\ \A i, j \in Validos(p) :
                i # j => ParseUUID(pedidos[p][i].id) # ParseUUID(pedidos[p][j].id))
        => LET S == StopsOf(ruta[p][1])
           IN  /\ {v[2] : v \in {w \in vinculos : w[1] \in S}} = IdsValidos(p)
               /\ \A a \in IdsValidos(p) :
                      Cardinality({x \in S : <<x, a>> \in vinculos}) = 1
               /\ \A x \in S : \E v \in vinculos : v[1] = x

\* a committed Route with one Stop that is linked to two orders
C30_Witness ==
    /\ pc[1] = "despachar" /\ ruta[1] # NONE
    /\ Cardinality(IdsValidos(1)) = 2
    /\ Len(pedidos[1]) = 2
    /\ Cardinality(StopsOf(ruta[1][1])) = 1
    /\ Cardinality({v \in vinculos : v[1] \in StopsOf(ruta[1][1])}) = 2

\* the UUIDs of the orders of the list l whose id is valid, in the order of l
RECURSIVE IdsEnOrden(_)
IdsEnOrden(l) ==
    IF l = <<>> THEN <<>>
    ELSE IF ParseUUID(Head(l).id) = NONE THEN IdsEnOrden(Tail(l))
    ELSE <<ParseUUID(Head(l).id)[1]>> \o IdsEnOrden(Tail(l))

\* the number of attempts of the run of attempts the log starts with: up to
\* its first success, three at most
LargoDeTanda(log) ==
    IF log[1].exito \/ Len(log) = 1 THEN 1
    ELSE IF log[2].exito \/ Len(log) = 2 THEN 2
    ELSE 3

\* log is, for the order ids in turn, one run of attempts each: 1, 2 or 3
\* attempts that name the order, all failed but the last, which has failed
\* only if it is the third
RECURSIVE TandasCompletas(_, _)
TandasCompletas(log, ids) ==
    IF ids = <<>> THEN log = <<>>
    ELSE /\ log # <<>>
         /\ LET k == LargoDeTanda(log)
            IN  /\ \A i \in 1..k : log[i].pedido_id = Head(ids)
                /\ \A i \in 1..(k - 1) : ~log[i].exito
                /\ log[k].exito \/ k = 3
                /\ TandasCompletas(SubSeq(log, k + 1, Len(log)), Tail(ids))

\* the attempts the dispatch loop of p can still make at most
Restantes(p) == 3 * (Len(pedidos[p]) - idx[p] + 1) - (intento[p] - 1)

\* C31: the attempts a generateRoute call has sent since its commit are, for
\* the valid orders it has gone through in fetch order, one run of 1 to 3
\* attempts each, whatever the outcome of the runs before, followed by the
\* failed attempts made so far for the order in turn; when the call has ended
\* with 201 every valid order has its run, so the attempts number between one
\* and three per valid order. Every turn of the loop lowers the number of
\* attempts the loop can still make, which is never negative, and when no
\* order is left the call returns.
C31_DespachoPorPedido ==
    /\ [](\A p \in Procs :
            (pc[p] = "despachar" \/ (pc[p] = "fin" /\ resultado[p] = Creada)) =>
                LET log == enviados[p]
                    k == intento[p]
                    hechos == IdsEnOrden(SubSeq(pedidos[p], 1, idx[p] - 1))
                    n == Len(log) - (k - 1)
                IN  /\ k \in {1, 2, 3}
                    /\ n >= 0
                    /\ TandasCompletas(SubSeq(log, 1, n), hechos)
                    /\ k > 1 => /\ idx[p] <= Len(pedidos[p])
                                /\ ParseUUID(pedidos[p][idx[p]].id) # NONE
                                /\ \A i \in (n + 1)..Len(log) :
                                       /\ ~log[i].exito
                                       /\ log[i].pedido_id = ParseUUID(pedidos[p][idx[p]].id)[1]
                    /\ Restantes(p) >= 0
                    /\ pc[p] = "fin" =>
                           /\ hechos = IdsEnOrden(pedidos[p])
                           /\ Len(log) >= Len(IdsEnOrden(pedidos[p]))
                           /\ Len(log) <= 3 * Len(IdsEnOrden(pedidos[p])))
    /\ [][\A p \in Procs :
            pc[p] = "despachar" =>
                /\ (idx'[p] # idx[p] \/ intento'[p] # intento[p] \/ enviados'[p] # enviados[p])
                       => /\ pc'[p] = "despachar"
                          /\ Restantes(p)' < Restantes(p)
                          /\ Len(enviados'[p]) <= Len(enviados[p]) + 1
                /\ pc'[p] # "despachar"
                       => /\ idx[p] > Len(pedidos[p])
                          /\ pc'[p] = "fin"
                          /\ resultado'[p] = Creada]_vars

\* a call has ended with 201 after four attempts: three failed ones for its
\* first order, then one that succeeded for its second order
C31_Witness ==
    /\ pc[1] = "fin"
    /\ resultado[1] = Creada
    /\ Len(IdsEnOrden(pedidos[1])) = 2
    /\ Len(enviados[1]) = 4
    /\ \A i \in {1, 2, 3} : ~enviados[1][i].exito /\ enviados[1][i].pedido_id = enviados[1][1].pedido_id
    /\ enviados[1][4].exito
    /\ enviados[1][4].pedido_id # enviados[1][1].pedido_id

C33_SoloParadaYSuRuta ==
    [][\A id \in ParadaIds, nuevo \in ParadaEstado :
        (ActualizarEstadoParada(id, nuevo) /\ resp' = 200) =>
            /\ id \in DOMAIN paradas
            /\ DOMAIN paradas' = DOMAIN paradas
            /\ DOMAIN rutas' = DOMAIN rutas
            /\ \A x \in DOMAIN paradas : x # id => paradas'[x] = paradas[x]
            /\ paradas'[id] = [paradas[id] EXCEPT !.estado = nuevo]
            /\ \A r \in DOMAIN rutas : r # paradas[id].ruta_id => rutas'[r] = rutas[r]
            /\ rutas'[paradas[id].ruta_id].fecha = rutas[paradas[id].ruta_id].fecha
            /\ vinculos' = vinculos]_vars

\* after a successful update an IN_PROGRESS Route has one Stop DELIVERED and
\* one PENDING, next to a second Route that is PLANNED
C33_Witness ==
    /\ resp = 200
    /\ \E r, q \in DOMAIN rutas :
           /\ r # q
           /\ rutas[r].estado = EN_RUTA
           /\ rutas[q].estado = PLANEADA
           /\ \E x, y \in StopsOf(r) : /\ paradas[x].estado = ENTREGADA
                                       /\ paradas[y].estado = PENDIENTE
           /\ StopsOf(q) # {}

====
